---- MODULE Spec2Model ----
(***************************************************************************)
(* The three AWS Lambda entrypoints of atlassian-cloud-backups:            *)
(*   confluence/backups-trigger, confluence/backups-download and           *)
(*   jira-backups-download.                                                *)
(* Every invocation is a frame that walks through the calls of its         *)
(* lambda_handler; the site, the secret store, the clock and the bucket    *)
(* are the environment.                                                    *)
(***************************************************************************)
EXTENDS Integers, Sequences, FiniteSets, TLC

VARIABLES inv, bucket, overwrites, clock

vars == <<inv, bucket, overwrites, clock>>

----------------------------------------------------------------------------
(* Bounds of the model. *)

\* Invocations that run side by side in SpecConcurrent.
NumInv == 2
\* Half-second steps the clock may advance during a run.
MaxTicks == 3

----------------------------------------------------------------------------
(* Values. *)

None == "<None>"
Absent == "<absent>"

TRIGGER == "confluence-trigger"
CONFLUENCE == "confluence-download"
JIRA == "jira-download"
Kinds == {TRIGGER, CONFLUENCE, JIRA}
RetrievalKinds == {CONFLUENCE, JIRA}

NoException == [type |-> None, at |-> None]
NoResult == [status |-> None, filename |-> None]
NoCredentials == <<>>

\* The secret of the README: {"email": ..., "api_token": ...}.
StoredCredentials == <<"bot@example.com", "api-token">>

\* What client.get_secret_value / json.loads / secret[...] can do.
SecretOutcomes ==
    {"ok", "no_region_env", "no_name_env", "unreachable", "not_found",
     "not_json", "no_email", "no_api_token"}

\* os.environ['SITE_NAME'] and os.environ['S3_BUCKET_NAME'].
SiteEnv == {Absent, "example.atlassian.net"}
BucketEnv == {Absent, "my-company-backups"}

\* JSON values the payload may carry under includeAttachments.
JsonValues ==
    {[type |-> "bool", val |-> "true"], [type |-> "bool", val |-> "false"],
     [type |-> "str", val |-> "false"], [type |-> "str", val |-> ""],
     [type |-> "num", val |-> "0"], [type |-> "num", val |-> "1"],
     [type |-> "null", val |-> "null"]}

JsonNull == [type |-> "null", val |-> "null"]

\* Invocation payloads: JSON null, or an object with or without the flag.
Events ==
    {[type |-> "null", has |-> FALSE, value |-> JsonNull],
     [type |-> "dict", has |-> FALSE, value |-> JsonNull]}
    \cup {[type |-> "dict", has |-> TRUE, value |-> v] : v \in JsonValues}

EmptyEvent == [type |-> "dict", has |-> FALSE, value |-> JsonNull]

\* HTTP status codes of a final response: a success, a 3xx that requests does
\* not follow (304, or a redirect without Location), a client error and a
\* server error; 0 stands for no response at all (requests raised
\* ConnectionError / Timeout).
Codes == {200, 304, 404, 500}

Body(fmt, text, status, locator) ==
    [fmt |-> fmt, text |-> text, status |-> status, locator |-> locator]

TransportError == [code |-> 0, body |-> Body("none", "", Absent, Absent)]

StatusTokens == {"COMPLETE", "Complete", "Success", "SUCCESS", "RUNNING"}
Locators == {"backup.zip", "export/download/?fileId=7f3a"}
TaskIdTexts == {"42", "42 "}

LookupResponses ==
    {[code |-> c, body |-> Body("text", t, Absent, Absent)] :
        c \in Codes, t \in TaskIdTexts} \cup {TransportError}

ProgressResponses ==
    {[code |-> c, body |-> Body("json", "", s, l)] :
        c \in Codes, s \in StatusTokens \cup {Absent}, l \in Locators \cup {Absent}}
    \cup {[code |-> c, body |-> Body("html", "<html>", Absent, Absent)] : c \in Codes}
    \cup {TransportError}

DownloadResponses ==
    {[code |-> c, body |-> Body("bytes", "", Absent, Absent)] : c \in Codes}
    \cup {TransportError}

TriggerResponses ==
    {[code |-> c, body |-> Body("json", "", Absent, Absent)] : c \in Codes}
    \cup {TransportError}

\* What s3.upload_fileobj can do.
UploadOutcomes == {"ok", "ClientError"}

\* The upstream of a finished export, as two invocations "with the same
\* upstream success state" see it.
NominalLookup == {[code |-> 200, body |-> Body("text", "42", Absent, Absent)]}
NominalProgress(k) ==
    {[code |-> 200,
      body |-> Body("json", "", IF k = JIRA THEN "Success" ELSE "COMPLETE",
                    "backup.zip")]}
NominalDownload == {[code |-> 200, body |-> Body("bytes", "", Absent, Absent)]}

\* Offsets of the host's local time zone from UTC, in seconds (TZ variable).
LocalOffsets == {0, 3600}

\* Clock readings (seconds since the epoch, UTC) a run may start at:
\* 2025-01-02T03:04:05Z, 2025-12-31T23:59:58Z, 2024-02-29T23:59:58Z.
BaseInstants == {1735787045, 1767225598, 1709251198}

----------------------------------------------------------------------------
(* The clock and datetime. *)

\* time() in whole seconds, and the microsecond part.
NowSec == clock.base + (clock.ticks \div 2)
NowMicro == (clock.ticks % 2) * 500000

\* Days since 1970-01-01 to a proleptic Gregorian date (datetime's
\* fromtimestamp arithmetic).
CivilFromDays(days) ==
    LET z == days + 719468
        era == z \div 146097
        doe == z - era * 146097
        yoe == (doe - doe \div 1460 + doe \div 36524 - doe \div 146096) \div 365
        doy == doe - (365 * yoe + yoe \div 4 - yoe \div 100)
        mp == (5 * doy + 2) \div 153
        d == doy - (153 * mp + 2) \div 5 + 1
        m == IF mp < 10 THEN mp + 3 ELSE mp - 9
        y == yoe + era * 400 + (IF m <= 2 THEN 1 ELSE 0)
    IN  [year |-> y, month |-> m, day |-> d]

FromTimestamp(sec) ==
    LET date == CivilFromDays(sec \div 86400)
        rest == sec % 86400
    IN  [year |-> date.year, month |-> date.month, day |-> date.day,
         hour |-> rest \div 3600, minute |-> (rest % 3600) \div 60,
         second |-> rest % 60]

\* datetime.now(tz): the reading in tz when one is given, else local time.
DatetimeNow(tz, sec, localOffset) ==
    IF tz = "UTC" THEN FromTimestamp(sec) ELSE FromTimestamp(sec + localOffset)

\* datetime.utcnow(): the naive UTC reading.
DatetimeUtcNow(sec) == FromTimestamp(sec)

Digit(d) ==
    CASE d = 0 -> "0" [] d = 1 -> "1" [] d = 2 -> "2" [] d = 3 -> "3"
      [] d = 4 -> "4" [] d = 5 -> "5" [] d = 6 -> "6" [] d = 7 -> "7"
      [] d = 8 -> "8" [] d = 9 -> "9"

Pad2(n) == Digit((n \div 10) % 10) \o Digit(n % 10)
Pad4(n) == Pad2(n \div 100) \o Pad2(n % 100)

\* One strftime directive, or a literal character of the format.
Directive(dt, tok) ==
    CASE tok = "%Y" -> Pad4(dt.year)
      [] tok = "%m" -> Pad2(dt.month)
      [] tok = "%d" -> Pad2(dt.day)
      [] tok = "%H" -> Pad2(dt.hour)
      [] tok = "%M" -> Pad2(dt.minute)
      [] tok = "%S" -> Pad2(dt.second)
      [] OTHER -> tok

RECURSIVE strftime(_, _)
strftime(dt, fmt) ==
    IF fmt = <<>> THEN "" ELSE Directive(dt, Head(fmt)) \o strftime(dt, Tail(fmt))

\* '%Y-%m-%dT%H-%M-%SZ'
UploadFormat ==
    <<"%Y", "-", "%m", "-", "%d", "T", "%H", "-", "%M", "-", "%S", "Z">>

\* The same format without the seconds (a coarser name).
MinuteFormat == <<"%Y", "-", "%m", "-", "%d", "T", "%H", "-", "%M", "Z">>

----------------------------------------------------------------------------
(* The pure parts of the handlers. *)

\* lambda_handler with the upload moved before the download.
NextStepUploadFirst(kind, step) ==
    CASE kind = TRIGGER ->
           (CASE step = "get_credentials" -> "are_attachments_included"
              [] step = "are_attachments_included" -> "trigger_backup"
              [] OTHER -> "done")
      [] OTHER ->
           (CASE step = "get_credentials" -> "get_site_name"
              [] step = "get_site_name" ->
                   (IF kind = JIRA THEN "get_task_id" ELSE "get_download_url")
              [] step = "get_task_id" -> "get_download_url"
              [] step = "get_download_url" -> "upload_to_s3"
              [] step = "upload_to_s3" -> "download_file"
              [] OTHER -> "done")

\* lambda_handler, top to bottom: the call that follows `step`.
NextStep(kind, step) ==
    CASE kind = TRIGGER ->
           (CASE step = "get_credentials" -> "are_attachments_included"
              [] step = "are_attachments_included" -> "trigger_backup"
              [] OTHER -> "done")
      [] kind = CONFLUENCE ->
           (CASE step = "get_credentials" -> "get_site_name"
              [] step = "get_site_name" -> "get_download_url"
              [] step = "get_download_url" -> "download_file"
              [] step = "download_file" -> "upload_to_s3"
              [] OTHER -> "done")
      [] OTHER ->
           (CASE step = "get_credentials" -> "get_site_name"
              [] step = "get_site_name" -> "get_task_id"
              [] step = "get_task_id" -> "get_download_url"
              [] step = "get_download_url" -> "download_file"
              [] step = "download_file" -> "upload_to_s3"
              [] OTHER -> "done")

\* A handler that goes on without credentials when the secret cannot be read.
OnExceptionSkipSecret(kind, step) ==
    IF step = "get_credentials" THEN NextStep(kind, step) ELSE "failed"

\* A handler that repeats the call that raised.
OnExceptionRetry(kind, step) == step

\* A handler that logs a failed upload and returns normally.
OnExceptionSwallowUpload(kind, step) ==
    IF step = "upload_to_s3" THEN "done" ELSE "failed"

\* No handler has a try/except: an exception raised in any call leaves
\* lambda_handler at once.
OnException(kind, step) == "failed"

\* The value lambda_handler returns.
ReturnValue(kind, filename) ==
    IF kind = TRIGGER
    THEN [status |-> "success", filename |-> None]
    ELSE [status |-> "success", filename |-> filename]

\* A check that lets client errors through.
RaiseForServerErrors(code) == 500 <= code /\ code < 600

\* Response.raise_for_status(): HTTPError for a 4xx or a 5xx status.
raise_for_status(code) == 400 <= code /\ code < 600

\* The literal get_download_url compares the status with.
SuccessToken(kind) == IF kind = JIRA THEN "Success" ELSE "COMPLETE"

Upper(s) ==
    CASE s = "Complete" -> "COMPLETE" [] s = "Success" -> "SUCCESS" [] OTHER -> s

\* A comparison that ignores case.
StatusIsSuccessIgnoreCase(kind, status) == Upper(status) = Upper(SuccessToken(kind))

\* `status != "COMPLETE"` / `status != "Success"`, negated.
StatusIsSuccess(kind, status) == status = SuccessToken(kind)

LastTaskIdUrl(site) == "https://" \o site \o "/rest/backup/1/export/lastTaskId"

ProgressUrl(kind, site, task_id) ==
    IF kind = JIRA
    THEN "https://" \o site \o "/rest/backup/1/export/getProgress?taskId=" \o task_id
    ELSE "https://" \o site \o "/wiki/rest/obm/1.0/getprogress.json"

\* The Confluence download path used for both products.
DownloadUrlOnePrefix(kind, site, download_url) ==
    "https://" \o site \o "/wiki/download/" \o download_url

DownloadUrl(kind, site, download_url) ==
    IF kind = JIRA
    THEN "https://" \o site \o "/plugins/servlet/" \o download_url
    ELSE "https://" \o site \o "/wiki/download/" \o download_url

RunBackupUrl(site) == "https://" \o site \o "/wiki/rest/obm/1.0/runbackup"

\* Python truth value of a JSON value.
Truthy(v) ==
    CASE v.type = "bool" -> v.val = "true"
      [] v.type = "str" -> v.val # ""
      [] v.type = "num" -> v.val # "0"
      [] OTHER -> FALSE

\* A test of the key's presence alone.
AttachmentsIfKeyPresent(event) ==
    IF event.type # "dict" THEN "TypeError"
    ELSE IF event.has THEN "true"
    ELSE "false"

\* are_attachments_included(event); `in` on None raises TypeError.
are_attachments_included(event) ==
    IF event.type # "dict" THEN "TypeError"
    ELSE IF event.has /\ Truthy(event.value) THEN "true"
    ELSE "false"

\* The data= of the runbackup request.
TriggerData(include_attachments) ==
    "{\"cbAttachments\":\"" \o include_attachments \o "\", \"exportToCloud\":\"true\"}"

\* datetime.now() without a time zone: the host's local time.
TimestampLocal(kind, sec, localOffset) == DatetimeNow("local", sec, localOffset)

\* The datetime each upload_to_s3 formats: datetime.now(UTC) in the
\* Confluence handler, datetime.utcnow() in the Jira handler.
Timestamp(kind, sec, localOffset) ==
    IF kind = JIRA THEN DatetimeUtcNow(sec) ELSE DatetimeNow("UTC", sec, localOffset)

NamePrefix(kind) == IF kind = JIRA THEN "jira-backup-" ELSE "confluence-backup-"

\* A name to the minute.
UploadFilenameToMinute(kind, dt) ==
    NamePrefix(kind) \o strftime(dt, MinuteFormat) \o ".zip"

\* The f-string of upload_to_s3.
UploadFilename(kind, dt) == NamePrefix(kind) \o strftime(dt, UploadFormat) \o ".zip"

\* The calls upload_to_s3 makes on the S3 client.
S3Calls(bucketName, key, body, outcome) ==
    <<[op |-> "upload_fileobj", bucket |-> bucketName, key |-> key,
       body |-> body, outcome |-> outcome]>>

\* A request as the log keeps it: the call that sent it, and the response it got.
Request(at, method, url, auth, data, resp) ==
    [at |-> at, method |-> method, url |-> url, auth |-> auth, data |-> data,
     resp |-> resp]

\* The frame after `step` returned, and after it raised.
Advance(g, step) ==
    [g EXCEPT !.pc = NextStep(g.kind, step),
              !.result = IF NextStep(g.kind, step) = "done"
                         THEN ReturnValue(g.kind, g.filename) ELSE @]

Raise(g, step, type) ==
    [g EXCEPT !.pc = OnException(g.kind, step),
              !.exception = [type |-> type, at |-> step]]

----------------------------------------------------------------------------
(* State. *)

InitFrame ==
    [pc |-> "idle", kind |-> None, event |-> EmptyEvent,
     credentials |-> NoCredentials, site_name |-> None,
     include_attachments |-> None, task_id |-> None, download_url |-> None,
     backup_file |-> None, filename |-> None, result |-> NoResult,
     exception |-> NoException, http |-> <<>>, s3 |-> <<>>,
     credFetches |-> 0, nameReads |-> <<>>]

Procs == DOMAIN inv

\* One invocation, any upstream behaviour.
Init ==
    /\ inv = [i \in {1} |-> InitFrame]
    /\ bucket = {}
    /\ overwrites = {}
    /\ clock \in [base : BaseInstants, ticks : {0}]

\* NumInv invocations of the retrieval workflows side by side.
InitConcurrent ==
    /\ inv = [i \in 1..NumInv |-> InitFrame]
    /\ bucket = {}
    /\ overwrites = {}
    /\ clock \in [base : BaseInstants, ticks : {0}]

----------------------------------------------------------------------------
(* Operations. *)

\* The host calls lambda_handler(event, context).
lambda_handler(i, k, ev) ==
    /\ inv[i].pc = "idle"
    /\ inv' = [inv EXCEPT ![i] = [@ EXCEPT !.pc = "get_credentials",
                                           !.kind = k, !.event = ev]]
    /\ UNCHANGED <<bucket, overwrites, clock>>

get_credentials(i, outcome) ==
    /\ inv[i].pc = "get_credentials"
    /\ LET f == [inv[i] EXCEPT !.credFetches = @ + 1]
           exc == CASE outcome \in {"no_region_env", "no_name_env"} -> "KeyError"
                    [] outcome = "unreachable" -> "EndpointConnectionError"
                    [] outcome = "not_found" -> "ClientError"
                    [] outcome = "not_json" -> "JSONDecodeError"
                    [] outcome \in {"no_email", "no_api_token"} -> "KeyError"
                    [] OTHER -> None
       IN  inv' = [inv EXCEPT ![i] =
                     IF exc # None
                     THEN Raise(f, "get_credentials", exc)
                     ELSE Advance([f EXCEPT !.credentials = StoredCredentials],
                                  "get_credentials")]
    /\ UNCHANGED <<bucket, overwrites, clock>>

get_site_name(i, site) ==
    /\ inv[i].pc = "get_site_name"
    /\ inv' = [inv EXCEPT ![i] =
                 IF site = Absent
                 THEN Raise(@, "get_site_name", "KeyError")
                 ELSE Advance([@ EXCEPT !.site_name = site], "get_site_name")]
    /\ UNCHANGED <<bucket, overwrites, clock>>

get_task_id(i, resp) ==
    /\ inv[i].pc = "get_task_id"
    /\ LET f == inv[i]
           g == [f EXCEPT !.http = Append(@,
                    Request("get_task_id", "GET", LastTaskIdUrl(f.site_name), f.credentials,
                            None, resp))]
       IN  inv' = [inv EXCEPT ![i] =
                     IF resp.code = 0
                     THEN Raise(g, "get_task_id", "ConnectionError")
                     ELSE IF raise_for_status(resp.code)
                     THEN Raise(g, "get_task_id", "HTTPError")
                     ELSE Advance([g EXCEPT !.task_id = resp.body.text],
                                  "get_task_id")]
    /\ UNCHANGED <<bucket, overwrites, clock>>

get_download_url(i, resp) ==
    /\ inv[i].pc = "get_download_url"
    /\ LET f == inv[i]
           g == [f EXCEPT !.http = Append(@,
                    Request("get_download_url", "GET", ProgressUrl(f.kind, f.site_name, f.task_id),
                            f.credentials, None, resp))]
           exc == IF resp.code = 0 THEN "ConnectionError"
                  ELSE IF raise_for_status(resp.code) THEN "HTTPError"
                  ELSE IF resp.body.fmt # "json" THEN "JSONDecodeError"
                  ELSE IF resp.body.status = Absent THEN "KeyError"
                  ELSE IF ~StatusIsSuccess(f.kind, resp.body.status) THEN "RuntimeError"
                  ELSE IF resp.body.locator = Absent THEN "KeyError"
                  ELSE None
       IN  inv' = [inv EXCEPT ![i] =
                     IF exc # None
                     THEN Raise(g, "get_download_url", exc)
                     ELSE Advance([g EXCEPT !.download_url = resp.body.locator],
                                  "get_download_url")]
    /\ UNCHANGED <<bucket, overwrites, clock>>

download_file(i, resp) ==
    /\ inv[i].pc = "download_file"
    /\ LET f == inv[i]
           url == DownloadUrl(f.kind, f.site_name, f.download_url)
           g == [f EXCEPT !.http = Append(@,
                    Request("download_file", "GET", url, f.credentials, None, resp))]
       IN  inv' = [inv EXCEPT ![i] =
                     IF resp.code = 0
                     THEN Raise(g, "download_file", "ConnectionError")
                     ELSE IF raise_for_status(resp.code)
                     THEN Raise(g, "download_file", "HTTPError")
                     ELSE Advance([g EXCEPT !.backup_file = url], "download_file")]
    /\ UNCHANGED <<bucket, overwrites, clock>>

upload_to_s3(i, bucketName, outcome, localOffset) ==
    /\ inv[i].pc = "upload_to_s3"
    /\ LET f == inv[i]
           name == UploadFilename(f.kind, Timestamp(f.kind, NowSec, localOffset))
           g == [f EXCEPT !.nameReads = Append(@,
                    [sec |-> NowSec, micro |-> NowMicro, name |-> name])]
           h == [g EXCEPT !.s3 = @ \o S3Calls(bucketName, name, f.backup_file, outcome)]
           ok == bucketName # Absent /\ outcome = "ok"
       IN  /\ inv' = [inv EXCEPT ![i] =
                        IF bucketName = Absent
                        THEN Raise(g, "upload_to_s3", "KeyError")
                        ELSE IF outcome # "ok"
                        THEN Raise(h, "upload_to_s3", outcome)
                        ELSE Advance([h EXCEPT !.filename = name], "upload_to_s3")]
           /\ bucket' = IF ok
                        THEN {o \in bucket : o.key # name}
                             \cup {[key |-> name, writer |-> i]}
                        ELSE bucket
           /\ overwrites' = IF ok
                            THEN overwrites \cup
                                 {[key |-> name, victim |-> o.writer, by |-> i] :
                                    o \in {x \in bucket : x.key = name /\ x.writer # i}}
                            ELSE overwrites
    /\ UNCHANGED clock

\* lambda_handler of the trigger: include_attachments = are_attachments_included(event)
attachments_step(i) ==
    /\ inv[i].pc = "are_attachments_included"
    /\ LET v == are_attachments_included(inv[i].event)
       IN  inv' = [inv EXCEPT ![i] =
                     IF v = "TypeError"
                     THEN Raise(@, "are_attachments_included", "TypeError")
                     ELSE Advance([@ EXCEPT !.include_attachments = v],
                                  "are_attachments_included")]
    /\ UNCHANGED <<bucket, overwrites, clock>>

trigger_backup(i, site, resp) ==
    /\ inv[i].pc = "trigger_backup"
    /\ LET f == inv[i]
           g == [f EXCEPT !.site_name = site,
                          !.http = Append(@,
                             Request("trigger_backup", "POST", RunBackupUrl(site), f.credentials,
                                     TriggerData(f.include_attachments), resp))]
       IN  inv' = [inv EXCEPT ![i] =
                     IF site = Absent
                     THEN Raise(f, "trigger_backup", "KeyError")
                     ELSE IF resp.code = 0
                     THEN Raise(g, "trigger_backup", "ConnectionError")
                     ELSE IF raise_for_status(resp.code)
                     THEN Raise(g, "trigger_backup", "HTTPError")
                     ELSE Advance(g, "trigger_backup")]
    /\ UNCHANGED <<bucket, overwrites, clock>>

\* Half a second passes.
Tick ==
    /\ clock.ticks < MaxTicks
    /\ clock' = [clock EXCEPT !.ticks = @ + 1]
    /\ UNCHANGED <<inv, bucket, overwrites>>

Next ==
    \/ \E i \in Procs, k \in Kinds :
          \E ev \in (IF k = TRIGGER THEN Events ELSE {EmptyEvent}) :
             lambda_handler(i, k, ev)
    \/ \E i \in Procs, outcome \in SecretOutcomes : get_credentials(i, outcome)
    \/ \E i \in Procs, site \in SiteEnv : get_site_name(i, site)
    \/ \E i \in Procs, resp \in LookupResponses : get_task_id(i, resp)
    \/ \E i \in Procs, resp \in ProgressResponses : get_download_url(i, resp)
    \/ \E i \in Procs, resp \in DownloadResponses : download_file(i, resp)
    \/ \E i \in Procs, b \in BucketEnv, outcome \in UploadOutcomes,
          off \in LocalOffsets : upload_to_s3(i, b, outcome, off)
    \/ \E i \in Procs : attachments_step(i)
    \/ \E i \in Procs, site \in SiteEnv, resp \in TriggerResponses :
          trigger_backup(i, site, resp)
    \/ Tick

Spec == Init /\ [][Next]_vars

\* Retrieval invocations against one bucket, with the upstream export
\* finished for all of them.
NextConcurrent ==
    \/ \E i \in Procs, k \in RetrievalKinds : lambda_handler(i, k, EmptyEvent)
    \/ \E i \in Procs : get_credentials(i, "ok")
    \/ \E i \in Procs : get_site_name(i, "example.atlassian.net")
    \/ \E i \in Procs, resp \in NominalLookup : get_task_id(i, resp)
    \/ \E i \in Procs :
          \E resp \in NominalProgress(inv[i].kind) : get_download_url(i, resp)
    \/ \E i \in Procs, resp \in NominalDownload : download_file(i, resp)
    \/ \E i \in Procs, off \in LocalOffsets :
          upload_to_s3(i, "my-company-backups", "ok", off)
    \/ Tick

SpecConcurrent == InitConcurrent /\ [][NextConcurrent]_vars

----------------------------------------------------------------------------
(* Reading a frame. *)

Retrievals == {i \in Procs : inv[i].kind \in RetrievalKinds}
Triggers == {i \in Procs : inv[i].kind = TRIGGER}

\* The requests of invocation i sent by call `at`.
SentBy(i, at) == {n \in DOMAIN inv[i].http : inv[i].http[n].at = at}

\* A response arrived, and its status line is ...
Answered(r) == r.resp.code # 0
Is2xx(r) == 200 <= r.resp.code /\ r.resp.code <= 299
Is4xx5xx(r) == 400 <= r.resp.code /\ r.resp.code <= 599

\* Invocation i has started a transfer: a download request, a computed name
\* or a call on the bucket.
Transferring(i) ==
    \/ SentBy(i, "download_file") # {}
    \/ inv[i].nameReads # <<>>
    \/ inv[i].s3 # <<>>
    \/ \E o \in bucket : o.writer = i

Failed(i, type, at) ==
    /\ inv[i].pc = "failed"
    /\ inv[i].exception = [type |-> type, at |-> at]
    /\ inv[i].result = NoResult

----------------------------------------------------------------------------
(* C1 *)

\* C1: a progress response that reaches the comparison with a status token
\* other than "COMPLETE" (Confluence) or "Success" (Jira), compared case-
\* sensitively, fails the invocation with the RuntimeError of
\* get_download_url (BackupIncomplete) and no transfer follows; and a
\* transfer is only ever started after a progress response that carried the
\* success token.
C1_NoTransferBeforeSuccess ==
    \A i \in Retrievals :
       LET f == inv[i]
           token == IF f.kind = CONFLUENCE THEN "COMPLETE" ELSE "Success"
       IN  /\ \A n \in SentBy(i, "get_download_url") :
                LET r == f.http[n]
                IN  (Answered(r) /\ r.resp.body.fmt = "json"
                       /\ r.resp.body.status # Absent /\ r.resp.body.status # token)
                    => /\ ~Transferring(i)
                       /\ f.pc = "failed"
                       /\ ~Is4xx5xx(r) => Failed(i, "RuntimeError", "get_download_url")
           /\ Transferring(i) =>
                \E n \in SentBy(i, "get_download_url") :
                   /\ Answered(f.http[n])
                   /\ f.http[n].resp.body.status = token

C1_Witness ==
    \E i \in Retrievals :
       /\ inv[i].kind = CONFLUENCE
       /\ Failed(i, "RuntimeError", "get_download_url")
       /\ \E n \in SentBy(i, "get_download_url") :
             /\ inv[i].http[n].resp.code = 200
             /\ inv[i].http[n].resp.body.status = "Complete"
       /\ ~Transferring(i)

----------------------------------------------------------------------------
(* C2 *)

\* C2: in all three entrypoints a failed credential fetch ends the
\* invocation before any HTTP request is sent, every request that is sent
\* carries the fetched credentials, and the fetch happens exactly once.
C2_NoRequestWithoutCredentials ==
    \A i \in Procs :
       LET f == inv[i]
       IN  /\ f.credFetches <= 1
           /\ f.pc \notin {"idle", "get_credentials"} => f.credFetches = 1
           /\ f.exception.at = "get_credentials" =>
                /\ f.http = <<>>
                /\ f.pc = "failed"
                /\ f.result = NoResult
                /\ ~Transferring(i)
           /\ \A n \in DOMAIN f.http :
                /\ f.credentials = StoredCredentials
                /\ f.http[n].auth = StoredCredentials

C2_Witness ==
    \E i \in Triggers :
       /\ Failed(i, "KeyError", "get_credentials")
       /\ inv[i].credFetches = 1
       /\ inv[i].http = <<>>

----------------------------------------------------------------------------
(* C3 *)

Named(i) == inv[i].nameReads # <<>>
NameOf(i) == inv[i].nameReads[1].name
SecondOf(i) == inv[i].nameReads[1].sec
Uploaded(i) == inv[i].filename # None

\* C3 as stated: two invocations of one retrieval workflow that both upload
\* always write two distinct objects, and none overwrites the other's.
C3_AlwaysDistinctObjects ==
    /\ overwrites = {}
    /\ \A i, j \in Retrievals :
          (i # j /\ inv[i].kind = inv[j].kind /\ Uploaded(i) /\ Uploaded(j))
          => inv[i].filename # inv[j].filename

\* C3 amended: two invocations get the same name exactly when they run the
\* same workflow and read the clock within the same UTC second; every
\* completed upload leaves an object under its name, last written by an
\* invocation of that workflow that read that second, so uploads that read
\* different seconds leave distinct objects; and an object is only ever
\* replaced by an invocation of the same workflow that read the same second.
C3_DistinctIffSecondsDiffer ==
    /\ \A i, j \in Retrievals :
          (i # j /\ Named(i) /\ Named(j)) =>
             (NameOf(i) = NameOf(j))
                <=> (inv[i].kind = inv[j].kind /\ SecondOf(i) = SecondOf(j))
    /\ \A i \in Retrievals :
          Uploaded(i) =>
             \E o \in bucket :
                /\ o.key = inv[i].filename
                /\ inv[o.writer].kind = inv[i].kind
                /\ SecondOf(o.writer) = SecondOf(i)
    /\ \A o, q \in bucket : o.key = q.key => o = q
    /\ \A o \in overwrites :
          /\ inv[o.victim].kind = inv[o.by].kind
          /\ SecondOf(o.victim) = SecondOf(o.by)
          /\ o.key = NameOf(o.by)

C3_Witness ==
    \E i, j \in Retrievals :
       /\ i # j
       /\ inv[i].kind = inv[j].kind
       /\ Uploaded(i) /\ Uploaded(j)
       /\ SecondOf(i) # SecondOf(j)
       /\ [key |-> inv[i].filename, writer |-> i] \in bucket
       /\ [key |-> inv[j].filename, writer |-> j] \in bucket
       /\ inv[i].filename # inv[j].filename

----------------------------------------------------------------------------
(* C4 *)

\* What follows a request of call `at` in the handler.
NothingAfter(i, n) ==
    /\ n = Len(inv[i].http)
    /\ inv[i].http[n].at \in {"get_task_id", "get_download_url"} =>
          SentBy(i, "download_file") = {}
    /\ inv[i].nameReads = <<>>
    /\ inv[i].s3 = <<>>
    /\ ~ \E o \in bucket : o.writer = i

\* C4 as stated: every answered lookup, progress or download request whose
\* status is not 2xx fails the invocation with HTTPError at that call, and
\* no later step runs.
C4_Non2xxFails ==
    \A i \in Retrievals :
       \A n \in DOMAIN inv[i].http :
          (Answered(inv[i].http[n]) /\ ~Is2xx(inv[i].http[n])) =>
             /\ Failed(i, "HTTPError", inv[i].http[n].at)
             /\ NothingAfter(i, n)

\* C4 amended: every answered lookup, progress or download request whose
\* status is 4xx or 5xx fails the invocation with HTTPError at that call
\* and no later step runs; HTTPError is raised for no other status.
C4_ErrorStatusFails ==
    \A i \in Retrievals :
       /\ \A n \in DOMAIN inv[i].http :
             (Answered(inv[i].http[n]) /\ Is4xx5xx(inv[i].http[n])) =>
                /\ Failed(i, "HTTPError", inv[i].http[n].at)
                /\ NothingAfter(i, n)
       /\ inv[i].exception.type = "HTTPError" =>
             /\ inv[i].http # <<>>
             /\ Is4xx5xx(inv[i].http[Len(inv[i].http)])
             /\ inv[i].http[Len(inv[i].http)].at = inv[i].exception.at

C4_Witness ==
    \E i \in Retrievals :
       /\ Failed(i, "HTTPError", "download_file")
       /\ inv[i].http[Len(inv[i].http)].resp.code = 404
       /\ inv[i].s3 = <<>>

----------------------------------------------------------------------------
(* C5 *)

EarlySteps ==
    {"get_credentials", "get_site_name", "get_task_id", "get_download_url",
     "download_file"}

\* C5: a retrieval invocation computes the object name at most once, and
\* only after its download request was answered without an HTTP error and
\* download_file returned the stream; an invocation that failed at the
\* credential fetch, the site name, the job-id lookup, the status poll or the
\* download has computed no name and touched no object; an invocation makes
\* at most one upload call, and one that returned has computed exactly one
\* name.
C5_NameOnceAfterDownload ==
    \A i \in Procs :
       LET f == inv[i]
       IN  /\ Len(f.nameReads) <= 1
           /\ Len(f.s3) <= 1
           /\ Cardinality({o \in bucket : o.writer = i}) <= 1
           /\ (f.nameReads # <<>> \/ f.s3 # <<>> \/ \E o \in bucket : o.writer = i) =>
                /\ f.kind \in RetrievalKinds
                /\ f.backup_file # None
                /\ f.http # <<>>
                /\ f.http[Len(f.http)].at = "download_file"
                /\ Answered(f.http[Len(f.http)])
                /\ ~Is4xx5xx(f.http[Len(f.http)])
                /\ f.exception.at \notin EarlySteps
                /\ Len(f.nameReads) = 1
           /\ f.exception.at \in EarlySteps =>
                /\ f.nameReads = <<>>
                /\ f.s3 = <<>>
                /\ ~ \E o \in bucket : o.writer = i
           /\ (f.pc = "done" /\ f.kind \in RetrievalKinds) => Len(f.nameReads) = 1

\* The failure scenario of the specification: the status is "RUNNING".
C5_Witness ==
    \E i \in Retrievals :
       /\ Failed(i, "RuntimeError", "get_download_url")
       /\ inv[i].http[Len(inv[i].http)].resp.body.status = "RUNNING"
       /\ inv[i].nameReads = <<>>
       /\ bucket = {}

----------------------------------------------------------------------------
(* C6 *)

\* The calls that send a request, in the order of each handler.
Calls(kind) ==
    CASE kind = JIRA -> <<"get_task_id", "get_download_url", "download_file">>
      [] kind = CONFLUENCE -> <<"get_download_url", "download_file">>
      [] kind = TRIGGER -> <<"trigger_backup">>
      [] OTHER -> <<>>

\* C6: the requests of an invocation are, in order, a prefix of one lookup,
\* one progress query and one download (Jira), of one progress query and one
\* download (Confluence); no endpoint is asked twice; an exception of any
\* step ends the invocation there, with nothing returned, and its last
\* request is the one of the step that raised.
C6_SingleShot ==
    \A i \in Procs :
       LET f == inv[i]
           calls == Calls(f.kind)
       IN  /\ Len(f.http) <= Len(calls)
           /\ \A n \in DOMAIN f.http : f.http[n].at = calls[n]
           /\ f.exception # NoException =>
                /\ f.pc = "failed"
                /\ f.result = NoResult
                /\ \A n \in DOMAIN f.http :
                      \A m \in DOMAIN calls :
                         (calls[m] = f.exception.at /\ f.http[n].at = calls[n]) => n <= m
           /\ f.pc = "failed" => f.exception # NoException

C6_Witness ==
    \E i \in Retrievals :
       /\ inv[i].kind = JIRA
       /\ Failed(i, "RuntimeError", "get_download_url")
       /\ Len(inv[i].http) = 2
       /\ inv[i].http[1].at = "get_task_id"
       /\ inv[i].http[2].at = "get_download_url"

----------------------------------------------------------------------------
(* C7 *)

\* C7: the download request goes to https://<site>/wiki/download/<fileName>
\* (Confluence) or https://<site>/plugins/servlet/<result> (Jira), with the
\* field exactly as the progress response of the same invocation carried it;
\* the Jira progress query carries exactly the text of the lastTaskId
\* response.
C7_LocatorUsedLiterally ==
    \A i \in Retrievals :
       LET f == inv[i]
       IN  \A n \in DOMAIN f.http :
              /\ f.http[n].at = "download_file" =>
                   /\ n > 1
                   /\ f.http[n - 1].at = "get_download_url"
                   /\ f.http[n].method = "GET"
                   /\ f.http[n].url =
                        "https://example.atlassian.net"
                          \o (IF f.kind = CONFLUENCE THEN "/wiki/download/"
                                                     ELSE "/plugins/servlet/")
                          \o f.http[n - 1].resp.body.locator
                   /\ (f.kind = CONFLUENCE /\ f.http[n - 1].resp.body.locator = "backup.zip")
                        => f.http[n].url = "https://example.atlassian.net/wiki/download/backup.zip"
              /\ (f.kind = JIRA /\ f.http[n].at = "get_download_url") =>
                   /\ n > 1
                   /\ f.http[n - 1].at = "get_task_id"
                   /\ f.http[n].url =
                        "https://example.atlassian.net/rest/backup/1/export/getProgress?taskId="
                          \o f.http[n - 1].resp.body.text

C7_Witness ==
    \E i \in Retrievals :
       /\ inv[i].kind = JIRA
       /\ Len(inv[i].http) = 3
       /\ inv[i].http[1].resp.body.text = "42"
       /\ inv[i].http[2].url =
            "https://example.atlassian.net/rest/backup/1/export/getProgress?taskId=42"
       /\ inv[i].http[2].resp.body.locator = "export/download/?fileId=7f3a"
       /\ inv[i].http[3].url =
            "https://example.atlassian.net/plugins/servlet/export/download/?fileId=7f3a"

----------------------------------------------------------------------------
(* C8 *)

BodyTrue == "{\"cbAttachments\":\"true\", \"exportToCloud\":\"true\"}"
BodyFalse == "{\"cbAttachments\":\"false\", \"exportToCloud\":\"true\"}"

BooleanTrue == [type |-> "bool", val |-> "true"]

\* C8 as stated: cbAttachments is "true" exactly when the payload carries
\* includeAttachments equal to boolean true, and "false" otherwise.
C8_TrueIffBooleanTrue ==
    \A i \in Triggers :
       \A n \in DOMAIN inv[i].http :
          LET e == inv[i].event
              flag == e.type = "dict" /\ e.has /\ e.value = BooleanTrue
          IN  inv[i].http[n].data = (IF flag THEN BodyTrue ELSE BodyFalse)

\* The values Python takes for true among the payload's.
TruthyValues ==
    {BooleanTrue, [type |-> "str", val |-> "false"], [type |-> "num", val |-> "1"]}

\* C8 amended: cbAttachments is "true" exactly when the payload is an object
\* that carries includeAttachments with a value Python takes for true
\* (boolean true, a non-empty string, a non-zero number), and "false" when
\* the key is absent or its value is false, null, 0 or the empty string;
\* exportToCloud is always "true".
C8_TrueIffTruthy ==
    \A i \in Triggers :
       \A n \in DOMAIN inv[i].http :
          LET e == inv[i].event
              flag == e.has /\ e.value \in TruthyValues
          IN  /\ e.type = "dict"
              /\ inv[i].http[n].method = "POST"
              /\ inv[i].http[n].data = (IF flag THEN BodyTrue ELSE BodyFalse)

C8_Witness ==
    \E i \in Triggers :
       /\ inv[i].event = [type |-> "dict", has |-> TRUE, value |-> BooleanTrue]
       /\ inv[i].pc = "done"
       /\ inv[i].http[1].data = BodyTrue

----------------------------------------------------------------------------
(* C9 *)

\* '%Y-%m-%dT%H-%M-%SZ' of the UTC readings the clock can show, written out.
ExpectedStamp(sec) ==
    CASE sec = 1735787045 -> "2025-01-02T03-04-05Z"
      [] sec = 1735787046 -> "2025-01-02T03-04-06Z"
      [] sec = 1735787047 -> "2025-01-02T03-04-07Z"
      [] sec = 1735787048 -> "2025-01-02T03-04-08Z"
      [] sec = 1767225598 -> "2025-12-31T23-59-58Z"
      [] sec = 1767225599 -> "2025-12-31T23-59-59Z"
      [] sec = 1767225600 -> "2026-01-01T00-00-00Z"
      [] sec = 1767225601 -> "2026-01-01T00-00-01Z"
      [] sec = 1709251198 -> "2024-02-29T23-59-58Z"
      [] sec = 1709251199 -> "2024-02-29T23-59-59Z"
      [] sec = 1709251200 -> "2024-03-01T00-00-00Z"
      [] sec = 1709251201 -> "2024-03-01T00-00-01Z"
      [] OTHER -> "?"

\* C9: the object name is <product>-backup-<UTC time of the clock reading as
\* YYYY-MM-DDTHH-MM-SSZ>.zip, whatever the host's time zone and the
\* sub-second part of the reading.
C9_NameFromUtcClock ==
    \A i \in Procs :
       \A n \in DOMAIN inv[i].nameReads :
          LET r == inv[i].nameReads[n]
          IN  r.name = (IF inv[i].kind = JIRA THEN "jira" ELSE "confluence")
                          \o "-backup-" \o ExpectedStamp(r.sec) \o ".zip"

C9_Witness ==
    \E i \in Retrievals :
       /\ inv[i].kind = CONFLUENCE
       /\ inv[i].nameReads # <<>>
       /\ inv[i].nameReads[1].sec = 1735787045
       /\ inv[i].nameReads[1].micro = 500000
       /\ inv[i].filename = "confluence-backup-2025-01-02T03-04-05Z.zip"

----------------------------------------------------------------------------
(* C10 *)

\* C10: a retrieval invocation returns {"status": "success", "filename":
\* name} only after its single upload_fileobj call completed under that very
\* name; when the call raises, the invocation fails, returns nothing and
\* makes no further call on the bucket.
C10_SuccessOnlyAfterUpload ==
    \A i \in Retrievals :
       LET f == inv[i]
       IN  /\ f.result # NoResult =>
                /\ f.pc = "done"
                /\ f.exception = NoException
                /\ f.result.status = "success"
                /\ Len(f.s3) = 1
                /\ f.s3[1].op = "upload_fileobj"
                /\ f.s3[1].outcome = "ok"
                /\ f.s3[1].key = f.result.filename
                /\ f.s3[1].body = f.http[Len(f.http)].url
                /\ [key |-> f.result.filename, writer |-> i] \in bucket
           /\ f.pc = "done" => f.result # NoResult
           /\ \A n \in DOMAIN f.s3 :
                f.s3[n].outcome # "ok" =>
                   /\ Failed(i, f.s3[n].outcome, "upload_to_s3")
                   /\ Len(f.s3) = 1
                   /\ ~ \E o \in bucket : o.writer = i

C10_Witness ==
    \E i \in Retrievals :
       /\ inv[i].pc = "done"
       /\ inv[i].result.status = "success"
       /\ inv[i].result.filename = "jira-backup-2025-12-31T23-59-59Z.zip"
       /\ [key |-> "jira-backup-2025-12-31T23-59-59Z.zip", writer |-> i] \in bucket

====
